---- MODULE Spec2Model ----
(***************************************************************************)
(* A model of mai.py (MAI Recap, the HSE meeting minutes generator):       *)
(*   - generate_hse_minutes, the fixed-template minutes renderer;          *)
(*   - detect_speakers, the speaker label detector;                        *)
(*   - the "Update Transcript" handler of speaker_update_form.             *)
(*                                                                         *)
(* Text is a sequence of characters, each character a one-character        *)
(* string.  The bullet character U+2022 is written BULLET.  The fixed      *)
(* text of the minutes template is kept as literal runs: one string per    *)
(* run of template text that holds no line break.                          *)
(***************************************************************************)
EXTENDS Integers, Sequences, FiniteSets, TLC

\* ------------------------------------------------------------------------
\* Characters and Python's str methods
\* ------------------------------------------------------------------------

NL == "\n"
TAB == "\t"
BULLET == "U+2022"
\* The grave accent, code point 96.
BACKTICK == "U+0060"

\* The printable ASCII characters, code points 32..126 in order.
Printable ==
  <<" ", "!", "\"", "#", "$", "%", "&", "'", "(", ")", "*", "+", ",", "-",
    ".", "/", "0", "1", "2", "3", "4", "5", "6", "7", "8", "9", ":", ";",
    "<", "=", ">", "?", "@", "A", "B", "C", "D", "E", "F", "G", "H", "I",
    "J", "K", "L", "M", "N", "O", "P", "Q", "R", "S", "T", "U", "V", "W",
    "X", "Y", "Z", "[", "\\", "]", "^", "_", BACKTICK, "a", "b", "c", "d", "e",
    "f", "g", "h", "i", "j", "k", "l", "m", "n", "o", "p", "q", "r", "s",
    "t", "u", "v", "w", "x", "y", "z", "{", "|", "}", "~">>

Chars == {Printable[i] : i \in 1..Len(Printable)} \cup {NL, TAB, BULLET}

\* ord(c): the code point of a character.
OrdTable ==
  [c \in Chars |->
     IF c = NL THEN 10
     ELSE IF c = TAB THEN 9
     ELSE IF c = BULLET THEN 8226
     ELSE 31 + (CHOOSE i \in 1..Len(Printable) : Printable[i] = c)]

Ord(c) == OrdTable[c]

Chr(n) == Printable[n - 31]

\* str.isspace for one character (the whitespace among Chars).
IsSpace(c) == c \in {" ", NL, TAB}

\* str.lower for one character.
LowerChar(c) == IF Ord(c) >= 65 /\ Ord(c) <= 90 THEN Chr(Ord(c) + 32) ELSE c

\* str.lower()
Lower(s) == [i \in 1..Len(s) |-> LowerChar(s[i])]

RECURSIVE LStrip(_)
LStrip(s) == IF s # <<>> /\ IsSpace(Head(s)) THEN LStrip(Tail(s)) ELSE s

RECURSIVE RStrip(_)
RStrip(s) ==
  IF s # <<>> /\ IsSpace(s[Len(s)]) THEN RStrip(SubSeq(s, 1, Len(s) - 1)) ELSE s

\* str.strip()
Strip(s) == RStrip(LStrip(s))

RECURSIVE Concat(_)
\* "".join(parts)
Concat(parts) == IF parts = <<>> THEN <<>> ELSE Head(parts) \o Concat(Tail(parts))

\* s1 < s2 as Python compares str: by code point, a proper prefix first.
RECURSIVE StrLess(_, _)
StrLess(s1, s2) ==
  IF s2 = <<>> THEN FALSE
  ELSE IF s1 = <<>> THEN TRUE
  ELSE IF Head(s1) = Head(s2) THEN StrLess(Tail(s1), Tail(s2))
  ELSE Ord(Head(s1)) < Ord(Head(s2))

\* sorted(list(set)): the elements of a finite set of strings in ascending order.
RECURSIVE SortedList(_)
SortedList(S) ==
  IF S = {} THEN <<>>
  ELSE LET m == CHOOSE x \in S : \A y \in S \ {x} : StrLess(x, y)
       IN <<m>> \o SortedList(S \ {m})

\* ------------------------------------------------------------------------
\* Python values of a structured record: None, str, list
\* ------------------------------------------------------------------------

PyNone == [t |-> "none", s |-> <<>>, items |-> <<>>]
PyStr(chars) == [t |-> "str", s |-> chars, items |-> <<>>]
PyList(xs) == [t |-> "list", s |-> <<>>, items |-> xs]
\* A key the mapping does not hold.
Absent == [t |-> "absent", s |-> <<>>, items |-> <<>>]

\* Python truthiness: None, "" and [] are false.
Truthy(v) ==
  CASE v.t = "none" -> FALSE
    [] v.t = "str" -> v.s # <<>>
    [] v.t = "list" -> v.items # <<>>

\* One character of repr(str): backslash, the quote in use and control
\* characters are escaped.
ReprChar(c, q) ==
  IF c = "\\" THEN <<"\\", "\\">>
  ELSE IF c = q THEN <<"\\", q>>
  ELSE IF c = NL THEN <<"\\", "n">>
  ELSE IF c = TAB THEN <<"\\", "t">>
  ELSE <<c>>

\* repr(str): single quotes, unless the string holds ' and no ".
ReprStr(s) ==
  LET hasS == \E i \in 1..Len(s) : s[i] = "'"
      hasD == \E i \in 1..Len(s) : s[i] = "\""
      q == IF hasS /\ ~hasD THEN "\"" ELSE "'"
  IN <<q>> \o Concat([i \in 1..Len(s) |-> ReprChar(s[i], q)]) \o <<q>>

\* repr of a list item (None or str).
ReprItem(v) == IF v.t = "none" THEN <<"N", "o", "n", "e">> ELSE ReprStr(v.s)

RECURSIVE JoinComma(_)
JoinComma(parts) ==
  IF parts = <<>> THEN <<>>
  ELSE IF Len(parts) = 1 THEN Head(parts)
  ELSE Head(parts) \o <<",", " ">> \o JoinComma(Tail(parts))

\* str(v), also what an f-string writes for {v}.
str(v) ==
  CASE v.t = "none" -> <<"N", "o", "n", "e">>
    [] v.t = "str" -> v.s
    [] v.t = "list" ->
         <<"[">> \o JoinComma([i \in 1..Len(v.items) |-> ReprItem(v.items[i])]) \o <<"]">>

\* ------------------------------------------------------------------------
\* generate_hse_minutes
\* ------------------------------------------------------------------------

NOT_MENTIONED == <<"n", "o", "t", " ", "m", "e", "n", "t", "i", "o", "n", "e", "d">>
NOT_STATED == <<"N", "o", "t", " ", "s", "t", "a", "t", "e", "d">>
NONE_RECORDED == <<"N", "o", "n", "e", " ", "r", "e", "c", "o", "r", "d", "e", "d">>
NONE_DECLARED == <<"N", "o", "n", "e", " ", "d", "e", "c", "l", "a", "r", "e", "d", ".">>
MEETING == <<"M", "e", "e", "t", "i", "n", "g">>
MIDNIGHT == <<"0", "0", ":", "0", "0">>
DIVIDER == "________________________________________"

ScalarFields ==
  {"meetingTitle", "meetingDate", "startTime", "endTime", "location",
   "chairperson", "minuteTaker", "declarationsOfInterest", "nextMeetingDate"}

ListFields ==
  {"attendees", "apologies", "mattersArising", "majorProjects", "minorProjects",
   "estatesStrategy", "healthSafety", "riskRegister", "financeUpdate", "aob"}

Fields == ScalarFields \cup ListFields

\* structured.get(key): None for a missing key.
dict_get(structured, key) ==
  IF structured[key] = Absent THEN PyNone ELSE structured[key]

\* structured.get(key, []): the empty list for a missing key.
dict_get_list(structured, key) ==
  IF structured[key] = Absent THEN PyList(<<>>) ELSE structured[key]

\* get(val, default): val if val and str(val).strip().lower() != "not mentioned"
\* else default.
get(val, default) ==
  IF Truthy(val) /\ Lower(Strip(str(val))) # NOT_MENTIONED THEN val ELSE PyStr(default)

\* The filter of bullets(): str(item).strip() and
\* str(item).strip().lower() != "not mentioned".
bullets_keep(item) ==
  /\ Strip(str(item)) # <<>>
  /\ Lower(Strip(str(item))) # NOT_MENTIONED

\* bullets() without its "if items:" test: a list whose items are all dropped
\* renders nothing at all.
bullets_unguarded(val) ==
  IF val.t = "list" /\ val.items # <<>>
  THEN LET items == SelectSeq(val.items, bullets_keep)
       IN Concat([i \in 1..Len(items) |-> <<BULLET, " ">> \o str(items[i]) \o <<NL>>])
  ELSE <<BULLET, " ">> \o NONE_RECORDED \o <<NL>>

\* bullets(val)
bullets(val) ==
  LET items == IF val.t = "list" /\ val.items # <<>>
               THEN SelectSeq(val.items, bullets_keep)
               ELSE <<>>
  IN IF items # <<>>
     THEN Concat([i \in 1..Len(items) |-> <<BULLET, " ">> \o str(items[i]) \o <<NL>>])
     ELSE <<BULLET, " ">> \o NONE_RECORDED \o <<NL>>

\* Two decimal digits, zero padded.
TwoDigits(n) == <<Chr(48 + ((n \div 10) % 10)), Chr(48 + (n % 10))>>

\* strftime with the month first: "%m/%d/%Y".
strftime_mdY(now) ==
  TwoDigits(now.month) \o <<"/">> \o TwoDigits(now.day) \o <<"/">>
    \o TwoDigits(now.year \div 100) \o TwoDigits(now.year % 100)

\* now.strftime("%d/%m/%Y")
strftime_dmY(now) ==
  TwoDigits(now.day) \o <<"/">> \o TwoDigits(now.month) \o <<"/">>
    \o TwoDigits(now.year \div 100) \o TwoDigits(now.year % 100)

\* The header block of the template: lines 191-198 of mai.py.
template_header(structured, now) ==
  <<"HSE Capital & Estates Meeting Minutes", NL, "Meeting Title: ">>
    \o str(get(dict_get(structured, "meetingTitle"), MEETING))
    \o <<NL, "Date: ">>
    \o str(get(dict_get(structured, "meetingDate"), strftime_dmY(now)))
    \o <<NL, "Time: ">>
    \o str(get(dict_get(structured, "startTime"), MIDNIGHT))
    \o <<" - ">>
    \o str(get(dict_get(structured, "endTime"), MIDNIGHT))
    \o <<NL, "Location: ">>
    \o str(get(dict_get(structured, "location"), NOT_STATED))
    \o <<NL, "Chairperson: ">>
    \o str(get(dict_get(structured, "chairperson"), NOT_STATED))
    \o <<NL, "Minute Taker: ">>
    \o str(get(dict_get(structured, "minuteTaker"), NOT_STATED))
    \o <<NL, DIVIDER, NL>>

\* The ten numbered sections: lines 199-234 of mai.py.
template_sections(structured) ==
  <<"1. Attendance", NL, "Present:", NL>>
    \o bullets(dict_get_list(structured, "attendees"))
    \o <<NL, "Apologies:", NL>>
    \o bullets(dict_get_list(structured, "apologies"))
    \o <<NL, DIVIDER, NL, "2. Minutes of Previous Meeting / Matters Arising", NL>>
    \o bullets(dict_get_list(structured, "mattersArising"))
    \o <<NL, DIVIDER, NL, "3. Declarations of Interest", NL, BULLET, " ">>
    \o str(get(dict_get(structured, "declarationsOfInterest"), NONE_DECLARED))
    \o <<NL, DIVIDER, NL, "4. Capital Projects Update", NL,
         "4.1 Major Projects (Capital)", NL>>
    \o bullets(dict_get_list(structured, "majorProjects"))
    \o <<NL, "4.2 Minor Works / Equipment / ICT", NL>>
    \o bullets(dict_get_list(structured, "minorProjects"))
    \o <<NL, DIVIDER, NL, "5. Estates Strategy and Planning", NL>>
    \o bullets(dict_get_list(structured, "estatesStrategy"))
    \o <<NL, DIVIDER, NL, "6. Health & Safety / Regulatory Compliance", NL>>
    \o bullets(dict_get_list(structured, "healthSafety"))
    \o <<NL, DIVIDER, NL, "7. Risk Register", NL>>
    \o bullets(dict_get_list(structured, "riskRegister"))
    \o <<NL, DIVIDER, NL, "8. Finance Update", NL>>
    \o bullets(dict_get_list(structured, "financeUpdate"))
    \o <<NL, DIVIDER, NL, "9. AOB", NL>>
    \o bullets(dict_get_list(structured, "aob"))
    \o <<NL, DIVIDER, NL, "10. Next Meeting", NL, BULLET, " ">>
    \o str(get(dict_get(structured, "nextMeetingDate"), NOT_STATED))
    \o <<NL, DIVIDER, NL>>

\* The signature block: lines 235-239 of mai.py.
template_footer ==
  <<NL, NL, NL, "Minutes Approved By: ____________________ Date: ___________", NL>>

\* generate_hse_minutes with an early "if not structured: return ''".
generate_hse_minutes_early_return(structured, now) ==
  IF \A k \in Fields : structured[k] = Absent THEN <<>>
  ELSE template_header(structured, now) \o template_sections(structured) \o template_footer

\* generate_hse_minutes(structured), with now = datetime.now().
generate_hse_minutes(structured, now) ==
  template_header(structured, now) \o template_sections(structured) \o template_footer

\* ------------------------------------------------------------------------
\* detect_speakers
\* ------------------------------------------------------------------------

\* The character class [A-Za-z0-9\s\(\)\-\.] of the pattern.
InLabelClass(c) ==
  \/ Ord(c) >= 65 /\ Ord(c) <= 90
  \/ Ord(c) >= 97 /\ Ord(c) <= 122
  \/ Ord(c) >= 48 /\ Ord(c) <= 57
  \/ IsSpace(c)
  \/ c \in {"(", ")", "-", "."}

\* [\*\_]{2} at position p: any two characters out of * and _.
MarkerAt(text, p) ==
  /\ p + 1 <= Len(text)
  /\ text[p] \in {"*", "_"}
  /\ text[p + 1] \in {"*", "_"}

\* ^ under (?m): the start of the text or the position after a line break.
AtLineStart(text, p) == p = 1 \/ text[p - 1] = NL

\* The first position at or after q that holds no character of the class.
ClassRunEnd(text, q) ==
  CHOOSE r \in q..(Len(text) + 1) :
    /\ \A k \in q..(r - 1) : InLabelClass(text[k])
    /\ r = Len(text) + 1 \/ ~InLabelClass(text[r])

NO_MATCH == [ok |-> FALSE, label |-> <<>>, end |-> 0]

\* One match attempt of the pattern at position p:
\*   (?m)^(?:[\*\_]{2})?([A-Za-z0-9\s\(\)\-\.]+?)(?:[\*\_]{2})?[:]
\* The lazy group stops where the class run stops: no character of the class
\* is a marker character or the colon.
MatchLabelAt(text, p) ==
  IF ~AtLineStart(text, p) THEN NO_MATCH
  ELSE LET q == IF MarkerAt(text, p) THEN p + 2 ELSE p
           r == ClassRunEnd(text, q)
       IN IF r = q THEN NO_MATCH
          ELSE IF MarkerAt(text, r) /\ r + 2 <= Len(text) /\ text[r + 2] = ":"
          THEN [ok |-> TRUE, label |-> SubSeq(text, q, r - 1), end |-> r + 3]
          ELSE IF r <= Len(text) /\ text[r] = ":"
          THEN [ok |-> TRUE, label |-> SubSeq(text, q, r - 1), end |-> r + 1]
          ELSE NO_MATCH

\* The next position after p where ^ matches, or the end of the text.
NextLineStart(text, p) ==
  CHOOSE k \in (p + 1)..(Len(text) + 1) :
    /\ k = Len(text) + 1 \/ AtLineStart(text, k)
    /\ \A j \in (p + 1)..(k - 1) : ~AtLineStart(text, j)

\* re.findall(pattern, text) from position p on: the captured groups of the
\* leftmost non-overlapping matches, in order.
RECURSIVE findall_labels(_, _)
findall_labels(text, p) ==
  IF p > Len(text) THEN <<>>
  ELSE LET m == MatchLabelAt(text, p)
       IN IF m.ok THEN <<m.label>> \o findall_labels(text, m.end)
          ELSE findall_labels(text, NextLineStart(text, p))

Range(seq) == {seq[i] : i \in 1..Len(seq)}

\* detect_speakers(text)
detect_speakers(text) ==
  IF text = <<>> THEN <<>>
  ELSE SortedList(Range(findall_labels(text, 1)))

\* ------------------------------------------------------------------------
\* The "Update Transcript" handler of speaker_update_form
\* ------------------------------------------------------------------------

StartsWith(text, p, pat) ==
  /\ p + Len(pat) - 1 <= Len(text)
  /\ SubSeq(text, p, p + Len(pat) - 1) = pat

\* re.sub of a literal pattern from position p on: every leftmost
\* non-overlapping occurrence of pat becomes repl.
RECURSIVE sub_literal(_, _, _, _)
sub_literal(text, p, pat, repl) ==
  LET hits == {k \in p..Len(text) : StartsWith(text, k, pat)}
  IN IF hits = {} THEN SubSeq(text, p, Len(text))
     ELSE LET k == CHOOSE h \in hits : \A g \in hits : h <= g
          IN SubSeq(text, p, k - 1) \o repl
               \o sub_literal(text, k + Len(pat), pat, repl)

\* re.sub(rf"\*\*{re.escape(old)}\*\*", f"**{new}**", txt)
sub_bold(txt, old, new) ==
  sub_literal(txt, 1, <<"*", "*">> \o old \o <<"*", "*">>,
              <<"*", "*">> \o new \o <<"*", "*">>)

\* The first position at or after p that holds no whitespace.
SpaceRunEnd(text, p) ==
  CHOOSE r \in p..(Len(text) + 1) :
    /\ \A k \in p..(r - 1) : IsSpace(text[k])
    /\ r = Len(text) + 1 \/ ~IsSpace(text[r])

\* One match attempt of (?m)^\s*old: at position p: the end of the match
\* (0 for no match).  \s* is greedy and gives characters back.
MatchPlainAt(text, p, old) ==
  LET ends == {k \in p..SpaceRunEnd(text, p) : StartsWith(text, k, old \o <<":">>)}
  IN IF ~AtLineStart(text, p) \/ ends = {} THEN 0
     ELSE (CHOOSE k \in ends : \A j \in ends : j <= k) + Len(old) + 1

\* re.sub(rf"(?m)^\s*{re.escape(old)}:", f"{new}:", txt) from position p on,
\* with at the last text already copied.
RECURSIVE sub_plain_from(_, _, _, _, _)
sub_plain_from(text, at, p, old, new) ==
  IF p > Len(text) THEN SubSeq(text, at, Len(text))
  ELSE LET e == MatchPlainAt(text, p, old)
       IN IF e > 0
          THEN SubSeq(text, at, p - 1) \o new \o <<":">>
                 \o sub_plain_from(text, e, e, old, new)
          ELSE sub_plain_from(text, at, NextLineStart(text, p), old, new)

sub_plain(txt, old, new) == sub_plain_from(txt, 1, 1, old, new)

\* The body of the loop: both substitutions for one entry.
rename_one(txt, old, new) == sub_plain(sub_bold(txt, old, new), old, new)

\* for old, new in replacements.items(): ...  (entries in insertion order)
RECURSIVE rename_loop(_, _)
rename_loop(txt, entries) ==
  IF entries = <<>> THEN txt
  ELSE rename_loop(rename_one(txt, Head(entries)[1], Head(entries)[2]), Tail(entries))

\* The replacements dict the form builds: one entry per detected speaker
\* whose text input is filled in and differs from the label.
build_replacements(detected, names) ==
  LET filled == SelectSeq([i \in 1..Len(detected) |-> i],
                          LAMBDA i : names[i] # <<>> /\ names[i] # detected[i])
  IN [j \in 1..Len(filled) |-> <<detected[filled[j]], names[filled[j]]>>]

\* ------------------------------------------------------------------------
\* State
\* ------------------------------------------------------------------------

VARIABLES
  phase,              \* which step of the run under study has been taken
  structured,         \* the record handed to generate_hse_minutes
  now,                \* datetime.now() of the render call
  minutes,            \* st.session_state.minutes
  transcript,         \* st.session_state.transcript
  detected_speakers,  \* st.session_state.detected_speakers
  replacements,       \* the replacements dict of the last form submission
  submitted           \* the transcript the last form submission started from

VARIABLES
  secrets,            \* st.secrets: the password and the number of API keys
  session_keys,       \* the keys present in st.session_state
  password_verified,  \* st.session_state.password_verified
  current_view,       \* st.session_state.current_view
  messages,           \* st.session_state.messages
  key_index,          \* st.session_state.key_index
  generated_from,     \* the transcript each generated output was prompted with
  toast,              \* the message of the last st.toast
  rerun_pending,      \* st.rerun() was called: the next script run is due
  transcript_display, \* st.session_state.transcript_display (the text area)
  user_password       \* the access code of the last login submission

VARIABLES
  pc,                 \* position inside the retrying call in progress
  attempt,            \* the loop variable of the retry loop
  file_state,         \* audio_file.state.name
  selected,           \* the index configure_genai_with_current_key used last
  recent              \* the indices used by the latest consecutive failed attempts

session_vars ==
  <<secrets, session_keys, password_verified, current_view, messages, key_index,
    generated_from, rerun_pending, transcript_display, user_password>>

\* The session state the transcript handlers leave alone.
handler_frame ==
  <<secrets, password_verified, current_view, messages, key_index, generated_from,
    rerun_pending, user_password>>

call_vars == <<pc, attempt, file_state, selected, recent>>

vars ==
  <<phase, structured, now, minutes, transcript, detected_speakers,
    replacements, submitted, session_vars, toast, call_vars>>

\* nav_options, line 595 (the labels without their icons).
VIEW_TRANSCRIPT == "Transcript"
VIEW_MINUTES == "Minutes"
VIEW_BRIEFING == "Briefing"
VIEW_PODCAST == "Podcast"
VIEW_ANALYTICS == "Analytics"
VIEW_CHAT == "Chat"

nav_options ==
  {VIEW_TRANSCRIPT, VIEW_MINUTES, VIEW_BRIEFING, VIEW_PODCAST, VIEW_ANALYTICS, VIEW_CHAT}

\* Line 483.
preserve_keys == {"password_verified", "key_index", "current_view"}

\* Lines 37-38, 444-449: the keys every script run creates before the gate.
gate_keys == {"key_index", "password_verified", "current_view"}

\* Lines 468-473: the keys a script run creates once the gate is passed.
init_keys == {"messages", "transcript", "detected_speakers"}

NO_TOAST == "none"

NOTHING_GENERATED == [minutes |-> <<>>, briefing |-> <<>>, podcast |-> <<>>]

\* A secrets file with a password and two API keys.
SECRETS_TWO_KEYS == [password |-> "hse", nkeys |-> 2]

\* The session after a login, before any other interaction.
LoggedInSession ==
  /\ secrets = SECRETS_TWO_KEYS
  /\ session_keys = gate_keys \cup init_keys
  /\ password_verified = TRUE
  /\ current_view = VIEW_TRANSCRIPT
  /\ messages = <<>>
  /\ key_index = 0
  /\ generated_from = NOTHING_GENERATED
  /\ toast = NO_TOAST
  /\ rerun_pending = FALSE
  /\ transcript_display = <<>>
  /\ user_password = "hse"

\* No retrying call is in progress.
NoCall ==
  /\ pc = "idle"
  /\ attempt = 0
  /\ file_state = "none"
  /\ selected = 0
  /\ recent = <<>>

\* ------------------------------------------------------------------------
\* The minutes renderer on the records the extraction call may return
\* ------------------------------------------------------------------------

\* The longest list enumerated item by item.
MaxItems == 2

STR_EMPTY == <<>>
STR_BLANK == <<" ">>
STR_NOT_MENTIONED == <<"N", "o", "t", " ", "m", "e", "n", "t", "i", "o", "n", "e", "d">>
STR_NOT_MENTIONED_UPPER == <<"N", "O", "T", " ", "M", "E", "N", "T", "I", "O", "N", "E", "D">>
STR_JANE_DOE == <<"J", "a", "n", "e", " ", "D", "o", "e">>
STR_PROJECT_A == <<"P", "r", "o", "j", "e", "c", "t", " ", "A">>
STR_PROJECT_B == <<"P", "r", "o", "j", "e", "c", "t", " ", "B">>

\* What a list may hold: None or a string.
ItemSamples ==
  {PyNone, PyStr(STR_EMPTY), PyStr(STR_BLANK), PyStr(STR_NOT_MENTIONED),
   PyStr(STR_PROJECT_A), PyStr(STR_PROJECT_B)}

\* majorProjects = ["Project A", "", None, "Project B"]
LIST_PROJECTS ==
  PyList(<<PyStr(STR_PROJECT_A), PyStr(STR_EMPTY), PyNone, PyStr(STR_PROJECT_B)>>)

ListSamples ==
  {PyList(xs) : xs \in UNION {[1..n -> ItemSamples] : n \in 0..MaxItems}}
    \cup {LIST_PROJECTS}

StrSamples ==
  {PyStr(STR_EMPTY), PyStr(STR_BLANK), PyStr(STR_NOT_MENTIONED),
   PyStr(STR_NOT_MENTIONED_UPPER), PyStr(STR_JANE_DOE)}

\* The values a key of the record may hold.
ValueSamples == {Absent, PyNone} \cup StrSamples \cup ListSamples

\* The value the rest of the record holds.
BaseSamples ==
  {Absent, PyNone, PyStr(STR_EMPTY), PyStr(STR_NOT_MENTIONED), PyStr(STR_JANE_DOE),
   LIST_PROJECTS}

NowSamples ==
  {[day |-> 3, month |-> 11, year |-> 2026, hour |-> 9, minute |-> 5],
   [day |-> 25, month |-> 1, year |-> 2025, hour |-> 14, minute |-> 30]}

NO_MINUTES == <<>>
NO_TRANSCRIPT == <<>>

InitRender ==
  /\ phase = "input"
  /\ \E base \in BaseSamples, f \in Fields, v \in ValueSamples :
       structured = [k \in Fields |-> IF k = f THEN v ELSE base]
  /\ now \in NowSamples
  /\ minutes = NO_MINUTES
  /\ transcript = NO_TRANSCRIPT
  /\ detected_speakers = <<>>
  /\ replacements = <<>>
  /\ submitted = NO_TRANSCRIPT
  /\ LoggedInSession
  /\ NoCall

\* st.session_state.minutes = generate_hse_minutes(structured)
GenerateMinutes ==
  /\ phase = "input"
  /\ minutes' = generate_hse_minutes(structured, now)
  /\ phase' = "rendered"
  /\ UNCHANGED <<structured, now, transcript, detected_speakers, replacements, submitted>>
  /\ UNCHANGED <<session_vars, toast, call_vars>>

NextRender == GenerateMinutes

SpecRender == InitRender /\ [][NextRender]_vars

\* ------------------------------------------------------------------------
\* Reading a rendered document
\* ------------------------------------------------------------------------

\* str.splitlines() for text whose only line break is "\n".
splitlines(text) ==
  LET breaks == SelectSeq([i \in 1..Len(text) |-> i], LAMBDA i : text[i] = NL)
      n == Len(breaks)
      last == IF n = 0 THEN 0 ELSE breaks[n]
      from(k) == IF k = 1 THEN 1 ELSE breaks[k - 1] + 1
      whole == [k \in 1..n |-> SubSeq(text, from(k), breaks[k] - 1)]
  IN IF last < Len(text) THEN Append(whole, SubSeq(text, last + 1, Len(text)))
     ELSE whole

\* A run of template text (not a single character of a value).
IsLiteral(tok) == tok \notin Chars

\* A line that holds template text only.
IsTemplateLine(line) == Len(line) = 1 /\ IsLiteral(line[1])

\* The ten numbered section headings, in the order of the template.
Headings ==
  <<"1. Attendance", "2. Minutes of Previous Meeting / Matters Arising",
    "3. Declarations of Interest", "4. Capital Projects Update",
    "5. Estates Strategy and Planning", "6. Health & Safety / Regulatory Compliance",
    "7. Risk Register", "8. Finance Update", "9. AOB", "10. Next Meeting">>

\* The lines hs occur among lines[i..], in this order.
RECURSIVE OccurInOrder(_, _, _)
OccurInOrder(hs, lines, i) ==
  IF hs = <<>> THEN TRUE
  ELSE IF i > Len(lines) THEN FALSE
  ELSE IF lines[i] = <<Head(hs)>> THEN OccurInOrder(Tail(hs), lines, i + 1)
  ELSE OccurInOrder(hs, lines, i + 1)

\* The template line that precedes the bullets of a list field.
SectionLabel ==
  [f \in ListFields |->
     CASE f = "attendees" -> "Present:"
       [] f = "apologies" -> "Apologies:"
       [] f = "mattersArising" -> "2. Minutes of Previous Meeting / Matters Arising"
       [] f = "majorProjects" -> "4.1 Major Projects (Capital)"
       [] f = "minorProjects" -> "4.2 Minor Works / Equipment / ICT"
       [] f = "estatesStrategy" -> "5. Estates Strategy and Planning"
       [] f = "healthSafety" -> "6. Health & Safety / Regulatory Compliance"
       [] f = "riskRegister" -> "7. Risk Register"
       [] f = "financeUpdate" -> "8. Finance Update"
       [] f = "aob" -> "9. AOB"]

\* The rendered section of a list field: the lines after its label line, up to
\* the next template line (the blank line that closes the block is dropped).
Section(text, f) ==
  LET lines == splitlines(text)
      i == CHOOSE k \in 1..Len(lines) : lines[k] = <<SectionLabel[f]>>
      j == CHOOSE k \in (i + 1)..Len(lines) :
             /\ IsTemplateLine(lines[k])
             /\ \A m \in (i + 1)..(k - 1) : ~IsTemplateLine(lines[m])
  IN SelectSeq(SubSeq(lines, i + 1, j - 1), LAMBDA l : l # <<>>)

IsBulletLine(line) == Len(line) >= 2 /\ line[1] = BULLET /\ line[2] = " "

BulletLines(text, f) == SelectSeq(Section(text, f), IsBulletLine)

HasBulletChar(line) == \E i \in 1..Len(line) : line[i] = BULLET

\* The label that opens the line of a scalar field of the header block.
HeaderLabel ==
  [f \in {"meetingTitle", "meetingDate", "location", "chairperson", "minuteTaker"} |->
     CASE f = "meetingTitle" -> "Meeting Title: "
       [] f = "meetingDate" -> "Date: "
       [] f = "location" -> "Location: "
       [] f = "chairperson" -> "Chairperson: "
       [] f = "minuteTaker" -> "Minute Taker: "]

\* The line that opens with the template text label.
LineOf(lines, label) ==
  lines[CHOOSE k \in 1..Len(lines) : lines[k] # <<>> /\ lines[k][1] = label]

\* The line that follows the heading line.
LineAfter(lines, heading) ==
  lines[1 + (CHOOSE k \in 1..Len(lines) : lines[k] = <<heading>>)]

\* The text the rendered document shows for a scalar field.
ScalarText(text, f) ==
  LET lines == splitlines(text)
      time == LineOf(lines, "Time: ")
      dash == CHOOSE k \in 1..Len(time) : time[k] = " - "
  IN CASE f = "startTime" -> SubSeq(time, 2, dash - 1)
       [] f = "endTime" -> SubSeq(time, dash + 1, Len(time))
       [] f = "declarationsOfInterest" ->
            Tail(Tail(LineAfter(lines, "3. Declarations of Interest")))
       [] f = "nextMeetingDate" -> Tail(Tail(LineAfter(lines, "10. Next Meeting")))
       [] OTHER -> Tail(LineOf(lines, HeaderLabel[f]))

\* ------------------------------------------------------------------------
\* Properties of the minutes renderer (checked under SpecRender)
\* ------------------------------------------------------------------------

Rendered == phase = "rendered"

\* The template text runs a rendered document may hold.
TemplateText ==
  {Headings[i] : i \in 1..Len(Headings)}
    \cup {SectionLabel[f] : f \in ListFields}
    \cup {"HSE Capital & Estates Meeting Minutes", "Meeting Title: ", "Date: ",
          "Time: ", " - ", "Location: ", "Chairperson: ", "Minute Taker: ", DIVIDER,
          "Minutes Approved By: ____________________ Date: ___________"}

\* A string: every element is a character or a run of template text.
IsText(text) == \A i \in 1..Len(text) : text[i] \in Chars \cup TemplateText

\* C1: whatever each field of the record holds (nothing, None, "", the
\* sentinel, a string, a list), generate_hse_minutes returns a string that
\* holds the ten numbered section headings as lines, in ascending order.
C1_RenderTotal ==
  Rendered =>
    /\ IsText(minutes)
    /\ OccurInOrder(Headings, splitlines(minutes), 1)

\* A record with a missing key, a None and a list has been rendered.
C1_Witness ==
  /\ Rendered
  /\ structured["attendees"] = Absent
  /\ structured["location"] = PyNone
  /\ OccurInOrder(Headings, splitlines(minutes), 1)

\* What C2 keeps of a list: the items that are not None, not empty and not
\* whitespace-only.
ClaimKeeps(item) == item.t = "str" /\ Strip(item.s) # <<>>

\* C2: a list field that is a non-empty list renders exactly one bullet line
\* "(bullet) item" per item that is not None, empty or whitespace-only, in the
\* original order, and no bullet line for a dropped item.
C2_BulletsOfList ==
  Rendered =>
    \A f \in ListFields :
      LET val == structured[f]
          kept == SelectSeq(val.items, ClaimKeeps)
      IN (val.t = "list" /\ kept # <<>>) =>
           BulletLines(minutes, f) = [i \in 1..Len(kept) |-> <<BULLET, " ">> \o kept[i].s]

\* The default the template passes to get for each scalar field.
DefaultOf(f, n) ==
  CASE f = "meetingTitle" -> MEETING
    [] f = "meetingDate" -> strftime_dmY(n)
    [] f \in {"startTime", "endTime"} -> MIDNIGHT
    [] f = "declarationsOfInterest" -> NONE_DECLARED
    [] OTHER -> NOT_STATED

\* What C3 counts as missing: None, an empty or whitespace-only string, or
\* exactly "Not mentioned".
ClaimMissing(raw) ==
  \/ raw.t = "none"
  \/ raw.t = "str" /\ (Strip(raw.s) = <<>> \/ raw.s = STR_NOT_MENTIONED)

\* C3: for a scalar field that holds None or a string, the document shows the
\* raw value verbatim, unless the value is None, empty, whitespace-only or
\* exactly "Not mentioned": then, and only then, it shows the default.
C3_GetRule ==
  Rendered =>
    \A f \in ScalarFields :
      LET raw == dict_get(structured, f)
      IN raw.t \in {"none", "str"} =>
           ScalarText(minutes, f) =
             IF ClaimMissing(raw) THEN DefaultOf(f, now) ELSE raw.s

EmptyRecord == \A f \in Fields : structured[f] = Absent

Digits == <<"0", "1", "2", "3", "4", "5", "6", "7", "8", "9">>

\* The date as DD/MM/YYYY.
DateDDMMYYYY(n) ==
  <<Digits[(n.day \div 10) + 1], Digits[(n.day % 10) + 1], "/",
    Digits[(n.month \div 10) + 1], Digits[(n.month % 10) + 1], "/",
    Digits[(n.year \div 1000) + 1], Digits[((n.year \div 100) % 10) + 1],
    Digits[((n.year \div 10) % 10) + 1], Digits[(n.year % 10) + 1]>>

\* The time as HH:MM.
TimeHHMM(n) ==
  <<Digits[(n.hour \div 10) + 1], Digits[(n.hour % 10) + 1], ":",
    Digits[(n.minute \div 10) + 1], Digits[(n.minute % 10) + 1]>>

\* C4, as claimed: an empty record shows the current time HH:MM as start and
\* end time, the current date DD/MM/YYYY, "None declared.", and one
\* placeholder for every other scalar field.
C4_DefaultsAsClaimed ==
  (Rendered /\ EmptyRecord) =>
    /\ ScalarText(minutes, "startTime") = TimeHHMM(now)
    /\ ScalarText(minutes, "endTime") = TimeHHMM(now)
    /\ ScalarText(minutes, "meetingDate") = DateDDMMYYYY(now)
    /\ ScalarText(minutes, "declarationsOfInterest") = NONE_DECLARED
    /\ \A f \in ScalarFields \ {"startTime", "endTime", "meetingDate",
                                "declarationsOfInterest"} :
         ScalarText(minutes, f) = NOT_STATED

\* C4, amended: an empty record shows "00:00" as start and end time, the
\* current date DD/MM/YYYY, "Meeting" as title, "None declared.", and
\* "Not stated" for location, chairperson, minute taker and next meeting.
C4_Defaults ==
  (Rendered /\ EmptyRecord) =>
    /\ ScalarText(minutes, "startTime") = <<"0", "0", ":", "0", "0">>
    /\ ScalarText(minutes, "endTime") = <<"0", "0", ":", "0", "0">>
    /\ ScalarText(minutes, "meetingDate") = DateDDMMYYYY(now)
    /\ ScalarText(minutes, "meetingTitle") = <<"M", "e", "e", "t", "i", "n", "g">>
    /\ ScalarText(minutes, "declarationsOfInterest") =
         <<"N", "o", "n", "e", " ", "d", "e", "c", "l", "a", "r", "e", "d", ".">>
    /\ \A f \in {"location", "chairperson", "minuteTaker", "nextMeetingDate"} :
         ScalarText(minutes, f) = <<"N", "o", "t", " ", "s", "t", "a", "t", "e", "d">>

\* The empty record has been rendered.
C4_Witness == Rendered /\ EmptyRecord /\ minutes # NO_MINUTES

\* C5: a list field that holds a bare string S, not empty and not
\* whitespace-only, renders exactly one bullet line, "(bullet) S".
C5_BulletOfString ==
  Rendered =>
    \A f \in ListFields :
      LET val == structured[f]
      IN (val.t = "str" /\ Strip(val.s) # <<>>) =>
           BulletLines(minutes, f) = << <<BULLET, " ">> \o val.s >>

\* A list with no item that is not None, empty or whitespace-only.
NothingToList(val) ==
  \/ val = Absent
  \/ val.t = "list" /\ SelectSeq(val.items, ClaimKeeps) = <<>>

\* C6, as claimed: a list field that is empty, absent or without a surviving
\* item renders the placeholder line alone, with no bullet character.
C6_FallbackAsClaimed ==
  Rendered =>
    \A f \in ListFields :
      NothingToList(structured[f]) =>
        /\ Section(minutes, f) = <<NONE_RECORDED>>
        /\ \A i \in 1..Len(Section(minutes, f)) : ~HasBulletChar(Section(minutes, f)[i])

\* An item the filter of bullets() drops: a string that is empty,
\* whitespace-only or "not mentioned" in any letter case.
IsDroppedString(item) ==
  /\ item.t = "str"
  /\ (Strip(item.s) = <<>> \/ Lower(Strip(item.s)) = Lower(STR_NOT_MENTIONED))

\* A list field with nothing to list: absent, None, [] or only dropped strings.
NothingSurvives(val) ==
  \/ val \in {Absent, PyNone}
  \/ val.t = "list" /\ \A i \in 1..Len(val.items) : IsDroppedString(val.items[i])

\* C6, amended: a list field that is absent, None, an empty list or a list of
\* strings that are all empty, whitespace-only or "Not mentioned" renders the
\* single line "(bullet) None recorded": the placeholder is itself a bullet line.
C6_Fallback ==
  Rendered =>
    \A f \in ListFields :
      NothingSurvives(structured[f]) =>
        Section(minutes, f) =
          << <<BULLET, " ", "N", "o", "n", "e", " ", "r", "e", "c", "o", "r", "d", "e", "d">> >>

\* apologies = [] has been rendered.
C6_Witness ==
  /\ Rendered
  /\ structured["apologies"] = PyList(<<>>)
  /\ Len(Section(minutes, "apologies")) = 1

\* ------------------------------------------------------------------------
\* The transcript and its speaker labels: transcription, a manual edit, a
\* submission of the speaker form
\* ------------------------------------------------------------------------

\* The longest transcript enumerated character by character.
MaxLen == 5

\* len(text.strip()) > 20: the shortest transcript process_audio_with_rotation returns.
MIN_TRANSCRIPT == 20

TextAlphabet == {"A", "B", " ", NL, ":", "*"}

\* What the transcript text area may be edited to.
EditedTexts == UNION {[1..n -> TextAlphabet] : n \in 0..MaxLen}

TEXT_SMITH ==
  <<"*", "*", "D", "r", ".", " ", "S", "m", "i", "t", "h", "*", "*", ":", " ", "G",
    "o", "o", "d", " ", "m", "o", "r", "n", "i", "n", "g", ".", NL, "S", "p", "e",
    "a", "k", "e", "r", " ", "2", ":", " ", "T", "h", "a", "n", "k", "s", ".", NL>>

\* A line that opens with a run of 35 characters before its colon.
TEXT_LONG_RUN ==
  <<"M", "i", "n", "u", "t", "e", "s", " ", "o", "f", " ", "t", "h", "e",
    " ", "l", "a", "s", "t", " ", "m", "e", "e", "t", "i", "n", "g", " ",
    "i", "n", " ", "f", "u", "l", "l", ":", " ", "a", "g", "r", "e", "e",
    "d", ".", NL>>

TEXT_CHAIR ==
  <<"_", "_", "C", "h", "a", "i", "r", "_", "_", ":", " ", "W", "e", "l", "c", "o",
    "m", "e", " ", "e", "v", "e", "r", "y", "o", "n", "e", ".", NL, NL, "*", "*",
    "S", "p", "e", "a", "k", "e", "r", " ", "1", "*", "*", ":", " ", "T", "h", "a",
    "n", "k", "s", ".", NL, "S", "p", "e", "a", "k", "e", "r", " ", "1", " ", "i",
    "s", " ", "h", "e", "r", "e", ".", NL>>

TEXT_SHORT == <<"T", "o", "o", " ", "s", "h", "o", "r", "t", ".", NL>>

\* What the transcription model may answer.
ApiTexts == {TEXT_SMITH, TEXT_LONG_RUN, TEXT_CHAIR, TEXT_SHORT, <<>>}

\* What a text input of the speaker form may hold (empty: left blank).
NameChoices == {<<>>, <<"A">>, <<"B">>, <<"A", "l">>}

\* Lines 468-473: the session state of a fresh, logged-in session.
InitSpeakers ==
  /\ phase = "start"
  /\ transcript = NO_TRANSCRIPT
  /\ detected_speakers = <<>>
  /\ replacements = <<>>
  /\ submitted = NO_TRANSCRIPT
  /\ structured = [k \in Fields |-> Absent]
  /\ now \in {n \in NowSamples : n.day = 3}
  /\ minutes = NO_MINUTES
  /\ LoggedInSession
  /\ NoCall

\* The "Transcribe" handler, lines 563-584: process_audio_with_rotation
\* returns text only if len(text.strip()) > 20.
Transcribe ==
  /\ phase = "start"
  /\ \E text \in ApiTexts :
       /\ Len(Strip(text)) > MIN_TRANSCRIPT
       /\ transcript' = text
       /\ detected_speakers' = detect_speakers(text)
       /\ transcript_display' = text
  /\ session_keys' = session_keys \cup {"transcript_display"}
  /\ phase' = "transcribed"
  /\ UNCHANGED <<structured, now, minutes, replacements, submitted>>
  /\ UNCHANGED <<handler_frame, toast, call_vars>>

\* The manual edit sync of the Transcript view, lines 610-626.
ManualEdit ==
  /\ phase = "transcribed"
  /\ transcript # <<>>
  /\ \E edited_transcript \in EditedTexts :
       /\ edited_transcript # transcript
       /\ transcript' = edited_transcript
       /\ detected_speakers' = detect_speakers(edited_transcript)
       /\ transcript_display' = edited_transcript
  /\ session_keys' = session_keys \cup {"transcript_display"}
  /\ phase' = "edited"
  /\ UNCHANGED <<structured, now, minutes, replacements, submitted>>
  /\ UNCHANGED <<handler_frame, toast, call_vars>>

\* Line 534: the message of the toast of the submit handler.
TOAST_UPDATED == "Transcript updated with new names!"

\* The submit handler of speaker_update_form, lines 495-535.
UpdateTranscript ==
  /\ phase \in {"transcribed", "edited"}
  /\ transcript # <<>>
  /\ detected_speakers # <<>>
  /\ \E names \in [1..Len(detected_speakers) -> NameChoices] :
       LET r == build_replacements(detected_speakers, names)
           txt == rename_loop(transcript, r)
       IN /\ replacements' = r
          /\ submitted' = transcript
          /\ transcript' = txt
          /\ detected_speakers' = detect_speakers(txt)
          /\ transcript_display' = txt
  /\ session_keys' = session_keys \cup {"transcript_display"}
  /\ toast' = TOAST_UPDATED
  /\ phase' = "renamed"
  /\ UNCHANGED <<structured, now, minutes, handler_frame, call_vars>>

NextSpeakers == Transcribe \/ ManualEdit \/ UpdateTranscript

SpecSpeakers == InitSpeakers /\ [][NextSpeakers]_vars

\* ------------------------------------------------------------------------
\* Properties of speaker detection and renaming (checked under SpecSpeakers)
\* ------------------------------------------------------------------------

\* The transcript and the speaker cache have been written.
Detected == phase # "start"

\* The text split at every line break (every line kept, also an empty last one).
LinesOf(text) ==
  LET breaks == SelectSeq([i \in 1..Len(text) |-> i], LAMBDA i : text[i] = NL)
      n == Len(breaks)
      from(k) == IF k = 1 THEN 1 ELSE breaks[k - 1] + 1
      to(k) == IF k = n + 1 THEN Len(text) ELSE breaks[k] - 1
  IN [k \in 1..(n + 1) |-> SubSeq(text, from(k), to(k))]

\* The characters [A-Za-z0-9 ()-.] of a label.
IsLabelChar(c) ==
  \/ c \in {" ", "(", ")", "-", "."}
  \/ \E i \in 1..Len(Printable) :
       /\ Printable[i] = c
       /\ i + 31 \in (48..57) \cup (65..90) \cup (97..122)

IsMarker(line, p) ==
  /\ p + 1 <= Len(line)
  /\ <<line[p], line[p + 1]>> \in {<<"*", "*">>, <<"_", "_">>, <<"*", "_">>, <<"_", "*">>}

\* The labels of one line (none or one): the inner text when the line reads,
\* from its start, optional marker, one or more label characters, optional
\* marker, colon.
LineLabels(line) ==
  LET a == IF IsMarker(line, 1) THEN 3 ELSE 1
      ends == {b \in a..Len(line) :
                 /\ \A k \in a..b : IsLabelChar(line[k])
                 /\ \/ b + 1 <= Len(line) /\ line[b + 1] = ":"
                    \/ IsMarker(line, b + 1) /\ b + 3 <= Len(line) /\ line[b + 3] = ":"}
  IN {SubSeq(line, a, b) : b \in ends}

\* The line-by-line reference: the labels of the single lines, sorted, each once.
ReferenceDetect(text) ==
  IF text = <<>> THEN <<>>
  ELSE SortedList(UNION {LineLabels(l) : l \in Range(LinesOf(text))})

\* C7: detect_speakers returns exactly the sorted, duplicate-free labels of
\* the single lines that match the label pattern from their start; so no
\* returned label holds a line break, and an empty transcript has no labels.
C7_DetectLineByLine ==
  Detected =>
    /\ detected_speakers = ReferenceDetect(transcript)
    /\ \A i \in 1..Len(detected_speakers) : NL \notin Range(detected_speakers[i])
    /\ transcript = <<>> => detected_speakers = <<>>

\* C8: every label detect_speakers returns is trimmed, is not empty or
\* whitespace-only, and has fewer than 30 characters.
C8_LabelsFiltered ==
  Detected =>
    \A i \in 1..Len(detected_speakers) :
      LET label == detected_speakers[i]
      IN /\ Strip(label) = label
         /\ Strip(label) # <<>>
         /\ Len(label) < 30

\* C9: after a submission that renames one detected label L to a name N, L is
\* no longer detected, N is detected, and applying the same mapping to the
\* new transcript changes nothing.
C9_RenameRoundTrip ==
  (phase = "renamed" /\ Len(replacements) = 1) =>
    LET L == replacements[1][1]
        N == replacements[1][2]
    IN /\ L \notin Range(detected_speakers)
       /\ N \in Range(detected_speakers)
       /\ rename_loop(transcript, replacements) = transcript

\* The label occurrences of a text, in order of appearance.
LabelOccurrences(text) == IF text = <<>> THEN <<>> ELSE findall_labels(text, 1)

\* The new label of an old label under a mapping (the label itself if it has
\* no entry).
NewLabel(entries, label) ==
  IF \E i \in 1..Len(entries) : entries[i][1] = label
  THEN entries[CHOOSE i \in 1..Len(entries) : entries[i][1] = label][2]
  ELSE label

\* Every label occurrence of text carries, in renamed, the new label of its entry.
EntriesApplied(text, entries, renamed) ==
  LabelOccurrences(renamed) =
    [i \in 1..Len(LabelOccurrences(text)) |-> NewLabel(entries, LabelOccurrences(text)[i])]

\* C10: when every entry of the mapping, submitted alone, renames the label
\* occurrences of the transcript, the submission of the whole mapping gives
\* every label occurrence of the input its own entry's new label, also when
\* one entry's new label is another entry's old label.
C10_EachEntryApplied ==
  phase = "renamed" =>
    ((\A i \in 1..Len(replacements) :
        EntriesApplied(submitted, <<replacements[i]>>,
                       rename_loop(submitted, <<replacements[i]>>)))
     => EntriesApplied(submitted, replacements, transcript))

\* One line differs from another only in one label: the input line holds
\* the old label of an entry where the output line holds a new label of the
\* mapping, and the text before and after is the same.
OnlyLabelReplaced(line_in, line_out, entries) ==
  \/ line_out = line_in
  \/ \E i \in 1..Len(entries), j \in 1..Len(entries) :
       LET old == entries[i][1]
           new == entries[j][2]
       IN \E p \in 0..(Len(line_in) - Len(old)) :
            /\ SubSeq(line_in, p + 1, p + Len(old)) = old
            /\ line_out = SubSeq(line_in, 1, p) \o new
                            \o SubSeq(line_in, p + Len(old) + 1, Len(line_in))

\* C11: a submission leaves the number of lines of the transcript as it
\* was, and every line is either byte-identical to the input line or differs
\* from it only in its label (leading whitespace, blank lines and the text
\* after the colon are kept).
C11_OnlyLabelsChange ==
  phase = "renamed" =>
    /\ Len(LinesOf(transcript)) = Len(LinesOf(submitted))
    /\ \A k \in 1..Len(LinesOf(submitted)) :
         k <= Len(LinesOf(transcript)) =>
           OnlyLabelReplaced(LinesOf(submitted)[k], LinesOf(transcript)[k], replacements)

\* ------------------------------------------------------------------------
\* The rename loop on the mappings it may be handed
\* ------------------------------------------------------------------------

\* The transcripts the loop is applied to.
RenameTexts == {t \in EditedTexts : Len(t) < MaxLen}

\* The replacements dicts the loop is applied to: also entries that map a
\* label to itself.
RenameMappings ==
  {<<>>,
   << <<(<<"A">>), (<<"A">>)>> >>,
   << <<(<<"B">>), (<<"B">>)>> >>,
   << <<(<<"A">>), (<<"A">>)>>, <<(<<"B">>), (<<"B">>)>> >>,
   << <<(<<"A">>), (<<"B">>)>> >>,
   << <<(<<"A", "B">>), (<<"A">>)>> >>}

InitRename ==
  /\ phase = "mapping"
  /\ transcript \in RenameTexts
  /\ submitted = transcript
  /\ replacements \in RenameMappings
  /\ detected_speakers = <<>>
  /\ structured = [k \in Fields |-> Absent]
  /\ now \in {n \in NowSamples : n.day = 3}
  /\ minutes = NO_MINUTES
  /\ LoggedInSession
  /\ NoCall

\* Lines 514-526: for old, new in replacements.items(): the two re.sub calls.
ApplyRenameLoop ==
  /\ phase = "mapping"
  /\ transcript' = rename_loop(transcript, replacements)
  /\ phase' = "mapped"
  /\ UNCHANGED <<structured, now, minutes, detected_speakers, replacements, submitted>>
  /\ UNCHANGED <<session_vars, toast, call_vars>>

NextRename == ApplyRenameLoop

SpecRename == InitRename /\ [][NextRename]_vars

\* The label occurs in the text in one of the two forms the loop rewrites:
\* between two pairs of asterisks, or before a colon after nothing but
\* whitespace since the start of a line.
OccursHandled(text, old) ==
  \/ \E p \in 1..Len(text) : StartsWith(text, p, <<"*", "*">> \o old \o <<"*", "*">>)
  \/ \E p \in 1..Len(text) :
       /\ (p = 1 \/ text[p - 1] = NL)
       /\ \E q \in p..Len(text) :
            /\ \A k \in p..(q - 1) : IsSpace(text[k])
            /\ StartsWith(text, q, old \o <<":">>)

\* An entry that is to change nothing.
IsNoOpEntry(text, entry) == entry[1] = entry[2] \/ ~OccursHandled(text, entry[1])

NothingReplaced ==
  \A i \in 1..Len(replacements) : ~OccursHandled(submitted, replacements[i][1])

\* C13: the message shown after an "Update Transcript" submission tells a
\* submission that replaced nothing from one that replaced at least one
\* label occurrence: the message of a successful update is not shown when
\* nothing was replaced.
C13_ToastTellsNoChange ==
  (phase = "renamed" /\ NothingReplaced) => toast # TOAST_UPDATED

\* ------------------------------------------------------------------------
\* The retry loops of process_audio_with_rotation and robust_text_gen
\* ------------------------------------------------------------------------

\* Line 84 and line 139.
max_retries == 6

\* Line 28: the number of key names get_available_keys looks up.
NUM_KEY_NAMES == 3

\* Lines 42-43: the index configure_genai_with_current_key selects the key with.
configure_genai_with_current_key(index, n) == IF index >= n THEN 0 ELSE index

\* The increment without the modulus.
advance_key_unwrapped(index, n) == index + 1

\* Lines 132 and 151: (key_index + 1) % len(keys).
advance_key(index, n) == (index + 1) % n

\* The indices of the latest failed attempts, the oldest dropped beyond n.
remember(used, index, n) ==
  LET all == Append(used, index)
  IN IF Len(all) > n THEN SubSeq(all, Len(all) - n + 1, Len(all)) ELSE all

InitRetry ==
  /\ phase = "calls"
  /\ secrets \in {[password |-> "hse", nkeys |-> n] : n \in 1..NUM_KEY_NAMES}
  /\ session_keys = gate_keys \cup init_keys
  /\ password_verified = TRUE
  /\ current_view = VIEW_TRANSCRIPT
  /\ messages = <<>>
  /\ key_index = 0
  /\ generated_from = NOTHING_GENERATED
  /\ toast = NO_TOAST
  /\ rerun_pending = FALSE
  /\ transcript_display = <<>>
  /\ user_password = "hse"
  /\ NoCall
  /\ transcript = NO_TRANSCRIPT
  /\ detected_speakers = <<>>
  /\ replacements = <<>>
  /\ submitted = NO_TRANSCRIPT
  /\ structured = [k \in Fields |-> Absent]
  /\ now \in {n \in NowSamples : n.day = 3}
  /\ minutes = NO_MINUTES

\* What a retry step leaves alone.
RetryFrame ==
  UNCHANGED <<phase, structured, now, minutes, transcript, detected_speakers,
              replacements, submitted, secrets, session_keys, password_verified,
              current_view, messages, generated_from, toast, rerun_pending,
              transcript_display, user_password>>

\* Lines 127-133 and 151: the attempt failed with the key of index used;
\* the index moves on and the loop goes to its next round, or ends.
\* (The loop raises at line 135 / 154 when range(max_retries) is used up.)
AttemptFails(used, again) ==
  /\ key_index' = advance_key(used, secrets.nkeys)
  /\ selected' = used
  /\ recent' = remember(recent, used, secrets.nkeys)
  /\ attempt' = attempt + 1
  /\ pc' = IF attempt + 1 < max_retries THEN again ELSE "raised"
  /\ file_state' = "none"

\* Line 573: process_audio_with_rotation is called.
CallAudio ==
  /\ pc = "idle"
  /\ pc' = "audio_attempt"
  /\ attempt' = 0
  /\ UNCHANGED <<key_index, file_state, selected, recent>>
  /\ RetryFrame

\* Lines 103-105: configure the key and upload the file; the upload raises,
\* or returns a file in some state.
AudioUpload ==
  /\ pc = "audio_attempt"
  /\ LET used == configure_genai_with_current_key(key_index, secrets.nkeys)
     IN \/ AttemptFails(used, "audio_attempt")
        \/ /\ \E s \in {"PROCESSING", "ACTIVE", "FAILED"} : file_state' = s
           /\ key_index' = used
           /\ selected' = used
           /\ pc' = "audio_poll"
           /\ UNCHANGED <<attempt, recent>>
  /\ RetryFrame

\* Lines 107-108: the state is PROCESSING: the loop sleeps.
AudioSleep ==
  /\ pc = "audio_poll"
  /\ file_state = "PROCESSING"
  /\ pc' = "audio_sleep"
  /\ UNCHANGED <<attempt, key_index, file_state, selected, recent>>
  /\ RetryFrame

\* Line 109: get_file raises, or reports the state the file is in now.
AudioGetFile ==
  /\ pc = "audio_sleep"
  /\ \/ AttemptFails(selected, "audio_attempt")
     \/ /\ \E s \in {"PROCESSING", "ACTIVE", "FAILED"} : file_state' = s
        /\ pc' = "audio_poll"
        /\ UNCHANGED <<attempt, key_index, selected, recent>>
  /\ RetryFrame

\* Lines 111-125: a FAILED file raises; otherwise the model is asked, and
\* the text is returned only if len(text.strip()) > 20.
AudioGenerate ==
  /\ pc = "audio_poll"
  /\ file_state # "PROCESSING"
  /\ \/ AttemptFails(selected, "audio_attempt")
     \/ /\ file_state = "ACTIVE"
        /\ \E text \in ApiTexts : Len(Strip(text)) > MIN_TRANSCRIPT
        /\ pc' = "returned"
        /\ file_state' = "none"
        /\ recent' = <<>>
        /\ UNCHANGED <<attempt, key_index, selected>>
  /\ RetryFrame

\* Lines 639, 668, 696, 873: robust_text_gen is called.
CallText ==
  /\ pc = "idle"
  /\ pc' = "text_attempt"
  /\ attempt' = 0
  /\ UNCHANGED <<key_index, file_state, selected, recent>>
  /\ RetryFrame

\* Lines 143-152: one round of robust_text_gen: a non-empty text is
\* returned; an exception or an empty text moves the index on.
TextAttempt ==
  /\ pc = "text_attempt"
  /\ LET used == configure_genai_with_current_key(key_index, secrets.nkeys)
     IN \/ AttemptFails(used, "text_attempt")
        \/ /\ pc' = "returned"
           /\ key_index' = used
           /\ selected' = used
           /\ recent' = <<>>
           /\ UNCHANGED <<attempt, file_state>>
  /\ RetryFrame

\* The call has returned or raised; the caller goes on to its next call.
CallEnds ==
  /\ pc \in {"returned", "raised"}
  /\ pc' = "idle"
  /\ attempt' = 0
  /\ UNCHANGED <<key_index, file_state, selected, recent>>
  /\ RetryFrame

NextRetry ==
  \/ CallAudio
  \/ AudioUpload
  \/ AudioSleep
  \/ AudioGetFile
  \/ AudioGenerate
  \/ CallText
  \/ TextAttempt
  \/ CallEnds

SpecRetry == InitRetry /\ [][NextRetry]_vars

\* The program takes its next step whenever it has one.
SpecRetryFair == SpecRetry /\ WF_vars(NextRetry)

\* C15: the index a key is selected with is always in 0..n-1; a failed
\* attempt leaves key_index one further modulo n than the index it used; a
\* successful attempt leaves key_index at the index it used; the latest
\* consecutive failed attempts used consecutive indices modulo n, so n of
\* them used each key exactly once.
C15_RoundRobin ==
  LET n == secrets.nkeys
  IN /\ key_index \in 0..(n - 1)
     /\ selected \in 0..(n - 1)
     /\ \A i \in 1..Len(recent) : recent[i] \in 0..(n - 1)
     /\ \A i \in 1..(Len(recent) - 1) : recent[i + 1] = (recent[i] + 1) % n
     /\ Len(recent) = n => Range(recent) = 0..(n - 1)
     /\ (recent # <<>> /\ pc \in {"audio_attempt", "text_attempt", "raised"})
          => key_index = (recent[Len(recent)] + 1) % n
     /\ pc = "returned" => key_index = selected

\* Six attempts of one call have failed with three keys configured.
C15_Witness ==
  /\ pc = "raised"
  /\ attempt = max_retries
  /\ secrets.nkeys = 3
  /\ Len(recent) = 3

\* C16: every call of process_audio_with_rotation ends: once the call has
\* started, it returns or raises.
C16_AudioCallEnds ==
  (pc \in {"audio_attempt", "audio_poll", "audio_sleep"}) ~> (pc \in {"returned", "raised"})

\* ------------------------------------------------------------------------
\* The script runs of a session: gate, sidebar, transcription and views
\* ------------------------------------------------------------------------

\* Line 861.
MAX_CHAT_HISTORY == 20

\* The comparison without the test that a password is configured.
password_accepted_unset(secret, code) == code = secret

\* Line 459: the login condition.
password_accepted(secret, code) == secret # "" /\ code = secret

\* Lines 862-863: messages[-MAX_CHAT_HISTORY:] when the list is longer.
truncate_history(msgs) ==
  IF Len(msgs) > MAX_CHAT_HISTORY
  THEN SubSeq(msgs, Len(msgs) - MAX_CHAT_HISTORY + 1, Len(msgs))
  ELSE msgs

\* The cache left as it was.
sync_detected_stale(edited, cached) == cached

\* Line 625: the cache entry written when the text area diverges.
sync_detected(edited, cached) == detect_speakers(edited)

\* key_index after a call whose first k attempts failed (lines 42-43 for
\* the first attempt, then line 132 / 151 once per failure).
RECURSIVE rotate(_, _, _)
rotate(index, n, k) ==
  IF k = 0 THEN configure_genai_with_current_key(index, n)
  ELSE advance_key(rotate(index, n, k - 1), n)

USER_MESSAGE == [role |-> "user", content |-> "q"]
ASSISTANT_MESSAGE == [role |-> "assistant", content |-> "ans"]

\* A secrets file with one API key and no password.
SECRETS_NO_PASSWORD == [password |-> "", nkeys |-> 1]

\* Lines 37-38 and 444-466: a new session after its first script run, which
\* stops at the login form.
InitSession ==
  /\ phase = "session"
  /\ secrets \in {SECRETS_NO_PASSWORD, SECRETS_TWO_KEYS}
  /\ session_keys = gate_keys
  /\ password_verified = FALSE
  /\ current_view = VIEW_TRANSCRIPT
  /\ key_index = 0
  /\ messages = <<>>
  /\ transcript = NO_TRANSCRIPT
  /\ detected_speakers = <<>>
  /\ transcript_display = <<>>
  /\ minutes = NO_MINUTES
  /\ generated_from = NOTHING_GENERATED
  /\ toast = NO_TOAST
  /\ rerun_pending = FALSE
  /\ user_password = ""
  /\ replacements = <<>>
  /\ submitted = NO_TRANSCRIPT
  /\ structured = [k \in Fields |-> Absent]
  /\ now \in {n \in NowSamples : n.day = 3}
  /\ NoCall

\* The gate is passed (line 451) and no rerun is due: the page shows its widgets.
PageShown == password_verified /\ ~rerun_pending

\* Lines 591-626 and 859-863: the view part of a script run that is given
\* the text area value disp: the Transcript view binds the text area and
\* syncs a diverging value; the Chat view cuts the history.
RenderViews(tr, det, disp, keys, msgs, view) ==
  LET shown == tr # <<>>
      bound == shown /\ view = VIEW_TRANSCRIPT
      edited_transcript == IF bound /\ "transcript_display" \notin keys THEN tr ELSE disp
      diverges == bound /\ edited_transcript # tr
  IN /\ transcript' = IF diverges THEN edited_transcript ELSE tr
     /\ detected_speakers' = IF diverges THEN sync_detected(edited_transcript, det) ELSE det
     /\ transcript_display' = edited_transcript
     /\ session_keys' = IF bound THEN keys \cup {"transcript_display"} ELSE keys
     /\ messages' = IF shown /\ view = VIEW_CHAT THEN truncate_history(msgs) ELSE msgs

\* Lines 456-466: the login form is submitted with an access code.
RunLogin(code) ==
  /\ ~password_verified
  /\ ~rerun_pending
  /\ user_password' = code
  /\ IF password_accepted(secrets.password, code)
     THEN password_verified' = TRUE /\ rerun_pending' = TRUE
     ELSE UNCHANGED <<password_verified, rerun_pending>>
  /\ UNCHANGED <<phase, structured, now, minutes, transcript, detected_speakers,
                 replacements, submitted, secrets, session_keys, current_view,
                 messages, key_index, generated_from, transcript_display, toast,
                 call_vars>>

\* The script run that follows st.rerun(): lines 444-473 create the missing
\* keys, no widget has fired, the view is drawn.
ScriptRerun ==
  /\ rerun_pending
  /\ rerun_pending' = FALSE
  /\ IF password_verified
     THEN RenderViews(transcript, detected_speakers, transcript_display,
                      session_keys \cup gate_keys \cup init_keys, messages, current_view)
     ELSE /\ session_keys' = session_keys \cup gate_keys
          /\ UNCHANGED <<transcript, detected_speakers, transcript_display, messages>>
  /\ UNCHANGED <<phase, structured, now, minutes, replacements, submitted, secrets,
                 password_verified, current_view, key_index, generated_from,
                 user_password, toast, call_vars>>

\* Lines 481-486: "New Meeting / Reset" deletes every key that is not preserved.
RunReset ==
  /\ PageShown
  /\ session_keys' = session_keys \cap preserve_keys
  /\ messages' = <<>>
  /\ transcript' = NO_TRANSCRIPT
  /\ detected_speakers' = <<>>
  /\ transcript_display' = <<>>
  /\ minutes' = NO_MINUTES
  /\ generated_from' = NOTHING_GENERATED
  /\ rerun_pending' = TRUE
  /\ UNCHANGED <<phase, structured, now, replacements, submitted, secrets,
                 password_verified, current_view, key_index, user_password, toast,
                 call_vars>>

\* Lines 563-588: "Transcribe" with a call whose first k attempts failed and
\* whose next attempt, if there is one, returned text.
RunTranscribe(text, k) ==
  /\ PageShown
  /\ Len(Strip(text)) > MIN_TRANSCRIPT
  /\ key_index' = rotate(key_index, secrets.nkeys, k)
  /\ IF k < max_retries
     THEN /\ transcript' = text
          /\ detected_speakers' = detect_speakers(text)
          /\ transcript_display' = text
          /\ session_keys' = session_keys \cup {"transcript_display"}
          /\ current_view' = VIEW_TRANSCRIPT
          /\ rerun_pending' = TRUE
          /\ UNCHANGED messages
     ELSE /\ RenderViews(transcript, detected_speakers, transcript_display,
                         session_keys, messages, current_view)
          /\ UNCHANGED <<current_view, rerun_pending>>
  /\ UNCHANGED <<phase, structured, now, minutes, replacements, submitted, secrets,
                 password_verified, generated_from, user_password, toast, call_vars>>

\* Lines 495-535: "Update Transcript" with the names typed into the form.
RunUpdateTranscript(names) ==
  /\ PageShown
  /\ transcript # <<>>
  /\ detected_speakers # <<>>
  /\ LET txt == rename_loop(transcript, build_replacements(detected_speakers, names))
     IN /\ transcript' = txt
        /\ detected_speakers' = detect_speakers(txt)
        /\ transcript_display' = txt
  /\ session_keys' = session_keys \cup {"transcript_display"}
  /\ toast' = TOAST_UPDATED
  /\ rerun_pending' = TRUE
  /\ UNCHANGED <<phase, structured, now, minutes, replacements, submitted,
                 secrets, password_verified,
                 current_view, messages, key_index, generated_from, user_password,
                 call_vars>>

\* Lines 601-607: another view is chosen in the navigation.
RunSelectView(view) ==
  /\ PageShown
  /\ transcript # <<>>
  /\ view # current_view
  /\ current_view' = view
  /\ RenderViews(transcript, detected_speakers, transcript_display, session_keys,
                 messages, view)
  /\ UNCHANGED <<phase, structured, now, minutes, replacements, submitted, secrets,
                 password_verified, key_index, generated_from, rerun_pending,
                 user_password, toast, call_vars>>

\* Lines 610-626: the text area of the Transcript view is edited.
RunManualEdit(edited) ==
  /\ PageShown
  /\ transcript # <<>>
  /\ current_view = VIEW_TRANSCRIPT
  /\ "transcript_display" \in session_keys
  /\ edited # transcript_display
  /\ RenderViews(transcript, detected_speakers, edited, session_keys, messages,
                 current_view)
  /\ UNCHANGED <<phase, structured, now, minutes, replacements, submitted, secrets,
                 password_verified, current_view, key_index, generated_from,
                 rerun_pending, user_password, toast, call_vars>>

\* Line 540: a button without a handler that writes state; the script runs.
RunOther ==
  /\ PageShown
  /\ RenderViews(transcript, detected_speakers, transcript_display, session_keys,
                 messages, current_view)
  /\ UNCHANGED <<phase, structured, now, minutes, replacements, submitted, secrets,
                 password_verified, current_view, key_index, generated_from,
                 rerun_pending, user_password, toast, call_vars>>

\* Lines 629-655: "Generate Minutes"; the extraction call failed k times,
\* and a successful one returned the record parsed (parsed: the response
\* held JSON).
RunGenerateMinutes(k, parsed, record) ==
  /\ PageShown
  /\ transcript # <<>>
  /\ current_view = VIEW_MINUTES
  /\ key_index' = rotate(key_index, secrets.nkeys, k)
  /\ IF k < max_retries /\ parsed
     THEN /\ structured' = record
          /\ minutes' = generate_hse_minutes(record, now)
          /\ session_keys' = session_keys \cup {"minutes"}
          /\ generated_from' = [generated_from EXCEPT !.minutes = transcript]
     ELSE UNCHANGED <<structured, minutes, session_keys, generated_from>>
  /\ UNCHANGED <<phase, now, transcript, detected_speakers, replacements, submitted,
                 secrets, password_verified, current_view, messages, rerun_pending,
                 transcript_display, user_password, toast, call_vars>>

\* Lines 658-672 ("briefing") and 675-696 ("podcast"): the text is stored
\* under its key unless robust_text_gen raised.
RunGenerateText(key, k) ==
  /\ PageShown
  /\ transcript # <<>>
  /\ \/ key = "briefing" /\ current_view = VIEW_BRIEFING
     \/ key = "podcast" /\ current_view = VIEW_PODCAST
  /\ key_index' = rotate(key_index, secrets.nkeys, k)
  /\ IF k < max_retries
     THEN /\ session_keys' = session_keys \cup {key}
          /\ generated_from' = [generated_from EXCEPT ![key] = transcript]
     ELSE UNCHANGED <<session_keys, generated_from>>
  /\ UNCHANGED <<phase, structured, now, minutes, transcript, detected_speakers,
                 replacements, submitted, secrets, password_verified, current_view,
                 messages, rerun_pending, transcript_display, user_password, toast,
                 call_vars>>

\* Lines 859-875: a question in the Chat view; the answer call failed k times.
RunChat(k) ==
  /\ PageShown
  /\ transcript # <<>>
  /\ current_view = VIEW_CHAT
  /\ key_index' = rotate(key_index, secrets.nkeys, k)
  /\ LET asked == Append(truncate_history(messages), USER_MESSAGE)
     IN messages' = IF k < max_retries THEN Append(asked, ASSISTANT_MESSAGE) ELSE asked
  /\ UNCHANGED <<phase, structured, now, minutes, transcript, detected_speakers,
                 replacements, submitted, secrets, session_keys, password_verified,
                 current_view, generated_from, rerun_pending, transcript_display,
                 user_password, toast, call_vars>>

\* Lines 697-702: "Generate Audio" configures the key and stores the audio.
RunGenerateAudio(ok) ==
  /\ PageShown
  /\ transcript # <<>>
  /\ current_view = VIEW_PODCAST
  /\ "podcast" \in session_keys
  /\ key_index' = configure_genai_with_current_key(key_index, secrets.nkeys)
  /\ session_keys' = IF ok THEN session_keys \cup {"pod_audio", "pod_mime"} ELSE session_keys
  /\ UNCHANGED <<phase, structured, now, minutes, transcript, detected_speakers,
                 replacements, submitted, secrets, password_verified, current_view,
                 messages, generated_from, rerun_pending, transcript_display,
                 user_password, toast, call_vars>>

\* In the session as a whole, questions are explored while the chat history
\* is shorter than this.
MaxSessionMessages == 1

\* What is typed into the login form.
SessionCodes == {"", "hse", "guess"}

\* How many attempts of a call fail.
FailureCounts == {0, 1, max_retries}

\* A transcription of 22 characters and a line break.
TEXT_BOB ==
  <<"B","o","b",":"," ","g","o","o","d",
    " ","m","o","r","n","i","n","g"," ","a","l","l",".",NL>>

TEXT_EDITED == <<"B", ":", " ", "o", "k", NL>>

\* What the text area is edited to.
SessionEdits == {<<>>, TEXT_EDITED}

\* What a rename field holds.
SessionNames == {<<>>, <<"A", "l">>}

\* What the extraction call returns.
MinutesRecords ==
  {[k \in Fields |-> IF k = "meetingTitle" THEN PyStr(<<"E", "s", "t", "a", "t", "e", "s">>)
                     ELSE Absent]}

SessionLogin == \E code \in SessionCodes : RunLogin(code)

SessionTranscribe == \E text \in {TEXT_BOB}, k \in FailureCounts : RunTranscribe(text, k)

SessionUpdateTranscript ==
  \E names \in [1..Len(detected_speakers) -> SessionNames] : RunUpdateTranscript(names)

SessionSelectView == \E view \in nav_options : RunSelectView(view)

SessionManualEdit == \E edited \in SessionEdits : RunManualEdit(edited)

SessionGenerateMinutes ==
  \E k \in FailureCounts, parsed \in BOOLEAN, record \in MinutesRecords :
    RunGenerateMinutes(k, parsed, record)

SessionGenerateText ==
  \E key \in {"briefing", "podcast"}, k \in FailureCounts : RunGenerateText(key, k)

SessionGenerateAudio == \E ok \in BOOLEAN : RunGenerateAudio(ok)

SessionChat ==
  /\ Len(messages) < MaxSessionMessages
  /\ \E k \in FailureCounts : RunChat(k)

NextSession ==
  \/ SessionLogin
  \/ ScriptRerun
  \/ RunReset
  \/ SessionTranscribe
  \/ SessionUpdateTranscript
  \/ SessionSelectView
  \/ SessionManualEdit
  \/ RunOther
  \/ SessionGenerateMinutes
  \/ SessionGenerateText
  \/ SessionGenerateAudio
  \/ SessionChat

SpecSession == InitSession /\ [][NextSession]_vars

\* ------------------------------------------------------------------------
\* The Chat view of a session that holds a transcript
\* ------------------------------------------------------------------------

\* A logged-in session after a transcription, with the Chat view chosen.
InitChat ==
  /\ phase = "chat"
  /\ secrets = SECRETS_TWO_KEYS
  /\ session_keys = gate_keys \cup init_keys \cup {"transcript_display"}
  /\ password_verified = TRUE
  /\ current_view = VIEW_CHAT
  /\ key_index = 0
  /\ messages = <<>>
  /\ transcript = TEXT_BOB
  /\ detected_speakers = detect_speakers(TEXT_BOB)
  /\ transcript_display = TEXT_BOB
  /\ minutes = NO_MINUTES
  /\ generated_from = NOTHING_GENERATED
  /\ toast = NO_TOAST
  /\ rerun_pending = FALSE
  /\ user_password = "hse"
  /\ replacements = <<>>
  /\ submitted = NO_TRANSCRIPT
  /\ structured = [k \in Fields |-> Absent]
  /\ now \in {n \in NowSamples : n.day = 3}
  /\ NoCall

ChatAsk == \E k \in FailureCounts : RunChat(k)

NextChat == ChatAsk \/ RunOther

SpecChat == InitChat /\ [][NextChat]_vars

\* C14: the stored chat history never holds more than 20 messages.
C14_HistoryLimit == Len(messages) <= MAX_CHAT_HISTORY

\* ------------------------------------------------------------------------
\* Properties of the session (checked under SpecSession)
\* ------------------------------------------------------------------------

\* C17: whenever the session holds a transcript and a speaker cache, the
\* cache is what detect_speakers returns for the transcript.
C17_CacheConsistent ==
  ({"transcript", "detected_speakers"} \subseteq session_keys)
    => detected_speakers = detect_speakers(transcript)

\* The text area was edited and the label of the edited text renamed.
C17_Witness ==
  /\ transcript = <<"A", "l", ":", " ", "o", "k", NL>>
  /\ detected_speakers = << <<"A", "l">> >>
  /\ toast = TOAST_UPDATED
  /\ ~rerun_pending

\* The view that shows the output stored under a key.
ViewOf(key) ==
  CASE key = "minutes" -> VIEW_MINUTES
    [] key = "briefing" -> VIEW_BRIEFING
    [] key = "podcast" -> VIEW_PODCAST

\* C18: whenever generated minutes, a briefing or a podcast script is shown,
\* it was generated from the transcript the session holds now.
C18_OutputsMatchTranscript ==
  \A key \in {"minutes", "briefing", "podcast"} :
    (PageShown /\ transcript # <<>> /\ current_view = ViewOf(key) /\ key \in session_keys)
      => generated_from[key] = transcript

\* Nothing but the keys of the gate exists in the session.
NothingCreated ==
  /\ session_keys \subseteq gate_keys
  /\ transcript = NO_TRANSCRIPT
  /\ detected_speakers = <<>>
  /\ transcript_display = <<>>
  /\ minutes = NO_MINUTES
  /\ messages = <<>>
  /\ generated_from = NOTHING_GENERATED
  /\ key_index = 0
  /\ toast = NO_TOAST

\* C19: while password_verified is false nothing but the keys of the gate
\* exists; password_verified becomes true only in a login submission whose
\* access code equals a configured, non-empty password; once true it stays
\* true; and a step that deletes the transcript key (the reset) leaves
\* exactly the preserved keys among those the session had, with
\* password_verified, key_index and current_view as they were.
C19_LoginGate ==
  /\ [](~password_verified => NothingCreated)
  /\ [][(~password_verified /\ password_verified')
          => (secrets.password # "" /\ user_password' = secrets.password)]_vars
  /\ [][password_verified => password_verified']_vars
  /\ [][("transcript" \in session_keys /\ "transcript" \notin session_keys')
          => /\ session_keys' = session_keys \cap preserve_keys
             /\ password_verified'
             /\ UNCHANGED <<key_index, current_view>>]_vars

\* A reset after a login, a transcription and a rename.
C19_Witness ==
  /\ password_verified
  /\ rerun_pending
  /\ session_keys = preserve_keys
  /\ toast = TOAST_UPDATED

====
